---- MODULE Spec2Model ----
(***************************************************************************)
(* Model of the dscli upload engine (cmd/up.go) and of rm (cmd/rm.go).     *)
(*                                                                         *)
(* One command runs at a time.  The remote side is the set of file         *)
(* containers (channels), each with a topic and an ordered message list.   *)
(* Strings that the code formats and parses (topic, attachment names) are  *)
(* sequences of characters; payloads are sequences of byte values.         *)
(*                                                                         *)
(* Spec       up, up --resume and rm, with failing calls and interruptions *)
(* SpecDebug  the same, and up --debug                                     *)
(* SpecTamper the same, and messages deleted or renamed by hand            *)
(* SpecFair   Spec in which every call of a running command returns       *)
(***************************************************************************)
EXTENDS Integers, Sequences, FiniteSets, TLC

(***************************************************************************)
(* Program constants                                                       *)
(***************************************************************************)
\* maxTries passed to sendMessageWithRetry by both upload paths
UploadTries == 10
\* bytes subtracted from the attachment limit to get the chunk size
SafetyMargin == 50
\* common.MaxDiscordChannels, scaled
MaxDiscordChannels == 2

(***************************************************************************)
(* Bounds of the model                                                     *)
(***************************************************************************)
\* commands run one after the other in one behaviour
MaxRuns == 2
\* send calls, over one behaviour, in which an attempt fails
MaxFailingSends == 1
\* a send call can fail only among the first MaxFailingPos sends of its run
MaxFailingPos == 2
\* messages of a container changed by hand on the remote side
MaxTampers == 1

\* remote filenames the behaviour works on
Names == {"a"}
\* values GetMaxFileSizeUpload can return (it depends on the guild's tier)
Limits == {55, 150}

\* local file sizes uploaded under an attachment limit.  With B the chunk
\* size limit - SafetyMargin: under 55 (B = 5) the sizes 1, B-1, B, B+1 and
\* 10B+7; under 150 (B = 100) the limit, the limit + 1, 2B and 2B + 1
Sizes(limit) ==
    IF limit = 55 THEN {1, 4, 5, 6, 57}
    ELSE IF limit = 150 THEN {150, 151, 200, 201}
    ELSE {}

Min(a, b) == IF a < b THEN a ELSE b

(***************************************************************************)
(* Strings: strconv.FormatInt / strconv.Itoa / strconv.Atoi                *)
(***************************************************************************)
DigitChars == <<"0", "1", "2", "3", "4", "5", "6", "7", "8", "9">>

RECURSIVE Itoa(_)
Itoa(v) ==
    IF v < 0 THEN <<"-">> \o Itoa(0 - v)
    ELSE IF v < 10 THEN <<DigitChars[v + 1]>>
    ELSE Itoa(v \div 10) \o <<DigitChars[(v % 10) + 1]>>

FormatInt(v) == Itoa(v)

DigitValue(c) == CHOOSE d \in 0..9 : DigitChars[d + 1] = c

IsDigit(c) == \E d \in 0..9 : DigitChars[d + 1] = c

RECURSIVE ParseDigits(_, _)
ParseDigits(s, acc) ==
    IF Len(s) = 0 THEN acc
    ELSE ParseDigits(Tail(s), 10 * acc + DigitValue(Head(s)))

\* strconv.Atoi: optional sign, then at least one digit, nothing else
Atoi(s) ==
    LET signed == Len(s) > 0 /\ Head(s) \in {"+", "-"}
        digits == IF signed THEN Tail(s) ELSE s
        ok     == Len(digits) > 0 /\ \A k \in 1..Len(digits) : IsDigit(digits[k])
        mag    == IF ok THEN ParseDigits(digits, 0) ELSE 0
    IN  [ok |-> ok,
         val |-> IF signed /\ Head(s) = "-" THEN 0 - mag ELSE mag]

(***************************************************************************)
(* The local file                                                          *)
(***************************************************************************)
\* content of the local test file of a given size: byte j is j mod 256
LocalBytes(size) == [j \in 1..size |-> (j - 1) % 256]

\* ReadFull reading from the start of the file whatever the position
ReadFullRewound(size, offset, want) ==
    [n |-> Min(want, size), data |-> SubSeq(LocalBytes(size), 1, Min(want, size))]

\* io.ReadFull(file, buf) with len(buf) = want, from the file position offset
ReadFull(size, offset, want) ==
    LET n == IF size - offset <= 0 THEN 0 ELSE Min(want, size - offset)
    IN  [n |-> n, data |-> SubSeq(LocalBytes(size), offset + 1, offset + n)]

\* io.ReadAll(file) from the file position offset
ReadAll(size, offset) == SubSeq(LocalBytes(size), offset + 1, size)

(***************************************************************************)
(* The remote side                                                         *)
(***************************************************************************)
\* a name with no container
Absent == [exists |-> FALSE, topic |-> <<>>, msgs |-> <<>>]

\* the message a successful ChannelMessageSendComplex leaves in the channel:
\* one attachment carrying the bytes the call read from the file's Reader
Posted(id, name, payload) ==
    [id |-> id,
     attachments |-> <<[filename |-> name, size |-> Len(payload), data |-> payload]>>,
     pinned |-> FALSE]

\* the notice the remote posts in the channel when a message is pinned
PinNotice(id) == [id |-> id, attachments |-> <<>>, pinned |-> FALSE]

\* session.ChannelMessages(id, limit, "", "0", ""): the oldest messages
ChannelMessagesAfter0(msgs, limit) == SubSeq(msgs, 1, Min(limit, Len(msgs)))

\* session.ChannelMessages(id, limit, "", "", ""): the newest messages, newest first
ChannelMessagesLatest(msgs, limit) ==
    [k \in 1..Min(limit, Len(msgs)) |-> msgs[Len(msgs) - k + 1]]

\* the id the remote gives the next message of a channel: larger than the
\* id of every message in it
RECURSIVE NextId(_)
NextId(msgs) ==
    IF Len(msgs) = 0 THEN 1
    ELSE LET rest == NextId(Tail(msgs))
         IN  IF Head(msgs).id + 1 > rest THEN Head(msgs).id + 1 ELSE rest

\* session.ChannelMessagePin(channel.ID, message.ID) when it succeeds
Pinned(msgs, id) ==
    Append([k \in 1..Len(msgs) |->
                IF msgs[k].id = id THEN [msgs[k] EXCEPT !.pinned = TRUE] ELSE msgs[k]],
           PinNotice(NextId(msgs)))

\* what a command can change of a container: its existence, its topic, the
\* number of its messages and the messages pinned
Digest(ch) ==
    [exists |-> ch.exists, topic |-> ch.topic, count |-> Len(ch.msgs),
     pins |-> {k \in 1..Len(ch.msgs) : ch.msgs[k].pinned}]

\* the messages that carry a block, in channel order
RECURSIVE Blocks(_)
Blocks(msgs) ==
    IF Len(msgs) = 0 THEN <<>>
    ELSE IF Len(Head(msgs).attachments) = 0 THEN Blocks(Tail(msgs))
    ELSE <<Head(msgs).attachments[1]>> \o Blocks(Tail(msgs))

\* the payloads of a sequence of blocks, concatenated in order
RECURSIVE Concat(_)
Concat(blocks) ==
    IF Len(blocks) = 0 THEN <<>> ELSE Head(blocks).data \o Concat(Tail(blocks))

(***************************************************************************)
(* Pure parts of up                                                        *)
(***************************************************************************)
\* PreconditionError with > in the channel-limit check
PreconditionErrorOffByOne(resume, exists, count) ==
    IF ~resume /\ count > MaxDiscordChannels THEN "ErrChannelLimit"
    ELSE IF exists /\ ~resume THEN "ErrExists"
    ELSE IF ~exists /\ resume THEN "ErrNotExist"
    ELSE "nil"

\* the checks of up made before any remote object is touched
PreconditionError(resume, exists, count) ==
    IF ~resume /\ count >= MaxDiscordChannels THEN "ErrChannelLimit"
    ELSE IF exists /\ ~resume THEN "ErrExists"
    ELSE IF ~exists /\ resume THEN "ErrNotExist"
    ELSE "nil"

\* the loop over the two newest messages: the first one with an attachment
\* gives the last block number
RECURSIVE ScanLatest(_, _)
ScanLatest(msgs, blockSize) ==
    IF Len(msgs) = 0 THEN [err |-> "nil", block |-> 0]
    ELSE IF Len(Head(msgs).attachments) = 0 THEN ScanLatest(Tail(msgs), blockSize)
    ELSE IF Head(msgs).attachments[1].size # blockSize
         THEN [err |-> "ErrIncompleteLastBlock", block |-> 0]
    ELSE LET p == Atoi(Head(msgs).attachments[1].filename)
         IN  IF ~p.ok THEN [err |-> "ErrAtoi", block |-> 0]
             ELSE [err |-> "nil", block |-> p.val]

\* IsComplete counting the block after the last one
IsCompleteNextBlock(blockNumber, blockSize, size) == (blockNumber + 1) * blockSize = size

\* the already-complete test of the resume branch
IsComplete(blockNumber, blockSize, size) == blockNumber * blockSize = size

\* ResumeInspect comparing the topic only after the first ChannelMessages call
ResumeInspectTopicLate(ch, size, limit, listErr) ==
    LET refuse(e, r) == [err |-> e, maxDiscordFileSize |-> limit, blockNumber |-> 0, reads |-> r]
        oldest == ChannelMessagesAfter0(ch.msgs, 1)
        latest == ChannelMessagesLatest(ch.msgs, 2)
    IN  IF listErr = 1 THEN refuse("ErrList", 1)
        ELSE IF ch.topic # FormatInt(size) THEN refuse("ErrSizeMismatch", 1)
        ELSE IF Len(oldest) = 0 \/ Len(oldest[1].attachments) = 0
             THEN refuse("ErrCannotInfer", 1)
        ELSE IF oldest[1].attachments[1].size > limit
             THEN refuse("ErrBlockSizeExceedsLimit", 1)
        ELSE IF listErr = 2 THEN refuse("ErrList", 2)
        ELSE LET inferred == oldest[1].attachments[1].size
                 scan     == ScanLatest(latest, inferred)
             IN  IF scan.err # "nil" THEN refuse(scan.err, 2)
                 ELSE IF IsComplete(scan.block, inferred, size)
                      THEN refuse("ErrAlreadyComplete", 2)
                 ELSE [err |-> "nil", maxDiscordFileSize |-> inferred,
                       blockNumber |-> scan.block, reads |-> 2]

\* ResumeInspect without the assignment of the inferred block size to
\* maxDiscordFileSize
ResumeInspectKeepsLimit(ch, size, limit, listErr) ==
    LET refuse(e, r) == [err |-> e, maxDiscordFileSize |-> limit, blockNumber |-> 0, reads |-> r]
        oldest == ChannelMessagesAfter0(ch.msgs, 1)
        latest == ChannelMessagesLatest(ch.msgs, 2)
    IN  IF ch.topic # FormatInt(size) THEN refuse("ErrSizeMismatch", 0)
        ELSE IF listErr = 1 THEN refuse("ErrList", 1)
        ELSE IF Len(oldest) = 0 \/ Len(oldest[1].attachments) = 0
             THEN refuse("ErrCannotInfer", 1)
        ELSE IF oldest[1].attachments[1].size > limit
             THEN refuse("ErrBlockSizeExceedsLimit", 1)
        ELSE IF listErr = 2 THEN refuse("ErrList", 2)
        ELSE LET inferred == oldest[1].attachments[1].size
                 scan     == ScanLatest(latest, inferred)
             IN  IF scan.err # "nil" THEN refuse(scan.err, 2)
                 ELSE IF IsComplete(scan.block, inferred, size)
                      THEN refuse("ErrAlreadyComplete", 2)
                 ELSE [err |-> "nil", maxDiscordFileSize |-> limit,
                       blockNumber |-> scan.block, reads |-> 2]

\* the resume branch of up: the inferred block size and last block number, or
\* the error returned; reads counts the ChannelMessages calls made.  listErr
\* names the ChannelMessages call that fails (0: none).
ResumeInspect(ch, size, limit, listErr) ==
    LET refuse(e, r) == [err |-> e, maxDiscordFileSize |-> limit, blockNumber |-> 0, reads |-> r]
        oldest == ChannelMessagesAfter0(ch.msgs, 1)
        latest == ChannelMessagesLatest(ch.msgs, 2)
    IN  IF ch.topic # FormatInt(size) THEN refuse("ErrSizeMismatch", 0)
        ELSE IF listErr = 1 THEN refuse("ErrList", 1)
        ELSE IF Len(oldest) = 0 \/ Len(oldest[1].attachments) = 0
             THEN refuse("ErrCannotInfer", 1)
        ELSE IF oldest[1].attachments[1].size > limit
             THEN refuse("ErrBlockSizeExceedsLimit", 1)
        ELSE IF listErr = 2 THEN refuse("ErrList", 2)
        ELSE LET inferred == oldest[1].attachments[1].size
                 scan     == ScanLatest(latest, inferred)
             IN  IF scan.err # "nil" THEN refuse(scan.err, 2)
                 ELSE IF IsComplete(scan.block, inferred, size)
                      THEN refuse("ErrAlreadyComplete", 2)
                 ELSE [err |-> "nil", maxDiscordFileSize |-> inferred,
                       blockNumber |-> scan.block, reads |-> 2]

\* FitsSingle with a strict comparison
FitsSingleStrict(size, maxDiscordFileSize) == size < maxDiscordFileSize

\* "Check if file needs chunking": TRUE when the single-shot path is taken
FitsSingle(size, maxDiscordFileSize) == size <= maxDiscordFileSize

\* chunkSize of uploadChunkedFile
ChunkSizeOf(maxChunkSize) == maxChunkSize - SafetyMargin

\* verifyChunkSize
verifyChunkSize(chunkSize, actualSize) ==
    IF actualSize <= 0 THEN "ErrChunkEmpty"
    ELSE IF actualSize > chunkSize THEN "ErrChunkTooLarge"
    ELSE "nil"

\* the head of uploadChunkedFile: outside debug mode the new bar is advanced
\* by startBlock * chunkSize
ChunkedBarStart(out, debug, startBlock, chunkSize) ==
    IF ~debug THEN [out EXCEPT !.bar = @ + startBlock * chunkSize] ELSE out

\* the progress step of a pass of the chunk loop: the bar advances by the
\* bytes read, or in debug mode the logger writes "Chunk k: offset/size bytes"
\* where offset is the file position after the read
ChunkProgress(out, debug, blockNumber, n, offset, size) ==
    IF ~debug THEN [out EXCEPT !.bar = @ + n]
    ELSE [out EXCEPT !.log = Append(@, [chunk |-> blockNumber, offset |-> offset,
                                        size |-> size])]

\* the progress step of uploadSingleFile: the bar advances by the file size;
\* nothing in debug mode
SingleProgress(out, debug, size) ==
    IF ~debug THEN [out EXCEPT !.bar = @ + size] ELSE out

\* NextBlockNumber incrementing twice
NextBlockNumberTwice(blockNumber) == blockNumber + 2

\* blockNumber++ at the head of a pass of the chunk loop
NextBlockNumber(blockNumber) == blockNumber + 1

\* WaitTime without the growth
WaitTimeFlat(i) == 1

\* seconds slept after failed attempt i (0-indexed) of sendMessageWithRetry
WaitTime(i) == i + 1

(***************************************************************************)
(* State                                                                   *)
(***************************************************************************)
VARIABLES
    channels,   \* remote filename -> container (exists, topic, msgs)
    others,     \* file containers of the guild under other names
    pc,         \* where the running command stands
    result,     \* what the last command returned ("running" while it runs)
    run,        \* locals of the running up / rm
    msg,        \* the MessageSend being sent: name, data and Reader position
    retry,      \* locals of sendMessageWithRetry, attempts made and time slept
    output,     \* what the running command has written: standard output,
                \* the debug lines of the logger, bytes added to the progress bar
    ghost,      \* bookkeeping of the current command
    ledger      \* bookkeeping of each container's history

vars == <<channels, others, pc, result, run, msg, retry, output, ghost, ledger>>

NoRun ==
    [cmd |-> "none", resume |-> FALSE, debug |-> FALSE, remote |-> "a", size |-> 0, limit |-> 0,
     maxDiscordFileSize |-> 0, startBlock |-> 0, path |-> "none", chunkSize |-> 0,
     blockNumber |-> 0, offset |-> 0, n |-> 0, first |-> FALSE, attached |-> FALSE]

NoOutput == [stdout |-> <<>>, log |-> <<>>, bar |-> 0]

NoMsg == [name |-> <<>>, data |-> <<>>, pos |-> 0]

NoRetry == [i |-> 0, attempts |-> 0, waited |-> 0, maxTries |-> 0, message |-> 0]

\* the pin calls issued for a container: how many, the message of the first
\* one and the blocks acknowledged when it was issued, whether a resumed run
\* issued one, and whether an up was stopped between an ack and its pin call
NoPin == [calls |-> 0, message |-> 0, at |-> 0, resumed |-> FALSE, missed |-> FALSE]

NoLedger ==
    [size |-> 0, limit |-> 0, acked |-> 0, retried |-> 0, resumes |-> 0,
     freshEnd |-> "none", freshAcked |-> 0, lastEnd |-> "none", pin |-> NoPin,
     tampers |-> <<>>]

NoInspection ==
    [done |-> FALSE, err |-> "nil", maxDiscordFileSize |-> 0, blockNumber |-> 0,
     prior |-> NoLedger]

NoChunk == [set |-> FALSE, name |-> <<>>, offset |-> 0, n |-> 0]

Init ==
    /\ channels = [f \in Names |-> Absent]
    /\ others \in {0, MaxDiscordChannels - 1, MaxDiscordChannels}
    /\ pc = "idle"
    /\ result = "none"
    /\ run = NoRun
    /\ msg = NoMsg
    /\ retry = NoRetry
    /\ output = NoOutput
    /\ ghost = [runs |-> 0, failing |-> 0, reads |-> 0, calls |-> 0, sent |-> 0,
                before |-> [f \in Names |-> Digest(Absent)],
                inspected |-> NoInspection, firstChunk |-> NoChunk,
                sideFailed |-> {}, live |-> [f \in Names |-> 0]]
    /\ ledger = [f \in Names |-> NoLedger]

\* len(fileMap)
FileCount == others + Cardinality({f \in Names : channels[f].exists})

\* how an upload that had reached its container ended
EndKind(res) ==
    IF res = "nil" THEN "complete"
    ELSE IF res = "interrupted" THEN "interrupted"
    ELSE IF res \in {"ErrRead", "ErrSend"} THEN "failed"
    ELSE "refused"

\* the ledger once the running command has returned res
Closed(l, res) ==
    IF run.cmd = "up" /\ run.attached
    THEN [l EXCEPT ![run.remote] =
            [@ EXCEPT !.lastEnd = EndKind(res),
                      !.freshEnd = IF run.resume THEN @ ELSE EndKind(res),
                      !.freshAcked = IF run.resume THEN @ ELSE l[run.remote].acked]]
    ELSE l

(***************************************************************************)
(* up: from the start of the command to the upload path                    *)
(***************************************************************************)
\* local files given to up --resume: the file the container was created from,
\* or another one
ResumeSizes(name) ==
    IF ledger[name].size > 0 THEN {ledger[name].size, ledger[name].size + 1} ELSE {1}

\* local files given to up
LocalSizes(name, resume, limit) == IF resume THEN ResumeSizes(name) ELSE Sizes(limit)

\* up starts (session established, local file opened): the channel-limit and
\* name checks.  A refused command returns here.
UpStart(name, resume, size, limit, debug) ==
    /\ pc \in {"idle", "done"}
    /\ ghost.runs < MaxRuns
    /\ LET err == PreconditionError(resume, channels[name].exists, FileCount)
       IN  /\ pc' = IF err # "nil" THEN "done" ELSE IF resume THEN "inspect" ELSE "create"
           /\ result' = IF err # "nil" THEN err ELSE "running"
    /\ run' = [NoRun EXCEPT !.cmd = "up", !.resume = resume, !.debug = debug,
                            !.remote = name,
                            !.size = size, !.limit = limit,
                            !.maxDiscordFileSize = limit]
    /\ msg' = NoMsg
    /\ retry' = NoRetry
    /\ output' = NoOutput
    /\ ghost' = [ghost EXCEPT !.runs = @ + 1, !.reads = 0, !.calls = 0, !.sent = 0,
                              !.before = [f \in Names |-> Digest(channels[f])], !.inspected = NoInspection,
                              !.firstChunk = NoChunk, !.sideFailed = {}]
    /\ UNCHANGED <<channels, others, ledger>>

\* the resume branch: infer block size and last block from the container
Inspect(listErr) ==
    /\ pc = "inspect"
    /\ LET r == ResumeInspect(channels[run.remote], run.size, run.limit, listErr)
           l == [ledger EXCEPT ![run.remote].resumes = IF r.err = "nil" THEN @ + 1 ELSE @]
       IN  /\ ghost' = [ghost EXCEPT !.reads = r.reads,
                           !.inspected = [done |-> TRUE, err |-> r.err,
                                          maxDiscordFileSize |-> r.maxDiscordFileSize,
                                          blockNumber |-> r.blockNumber,
                                          prior |-> ledger[run.remote]]]
           /\ IF r.err # "nil"
              THEN /\ pc' = "done"
                   /\ result' = r.err
                   /\ UNCHANGED <<run, ledger>>
              ELSE /\ pc' = "branch"
                   /\ run' = [run EXCEPT !.maxDiscordFileSize = r.maxDiscordFileSize,
                                         !.startBlock = r.blockNumber,
                                         !.attached = TRUE]
                   /\ ledger' = l
                   /\ UNCHANGED result
    /\ UNCHANGED <<channels, others, msg, retry, output>>

\* session.GuildChannelCreate
CreateChannel(ok) ==
    /\ pc = "create"
    /\ ghost' = [ghost EXCEPT !.calls = @ + 1,
                              !.live[run.remote] = IF ok THEN @ + 1 ELSE @]
    /\ IF ok
       THEN /\ channels' = [channels EXCEPT ![run.remote] =
                               [exists |-> TRUE, topic |-> <<>>, msgs |-> <<>>]]
            /\ ledger' = [ledger EXCEPT ![run.remote] =
                               [NoLedger EXCEPT !.size = run.size, !.limit = run.limit,
                                                !.freshEnd = "running",
                                                !.lastEnd = "running"]]
            /\ run' = [run EXCEPT !.attached = TRUE]
            /\ pc' = "edit"
            /\ UNCHANGED result
       ELSE /\ pc' = "done"
            /\ result' = "ErrCreate"
            /\ UNCHANGED <<channels, ledger, run>>
    /\ UNCHANGED <<others, msg, retry, output>>

\* SetTopic returning the error of ChannelEdit
SetTopicFatal(ok) ==
    /\ pc = "edit"
    /\ ghost' = [ghost EXCEPT !.calls = @ + 1,
                              !.sideFailed = IF ok THEN @ ELSE @ \cup {"topic"}]
    /\ channels' = IF ok
                   THEN [channels EXCEPT ![run.remote].topic = FormatInt(run.size)]
                   ELSE channels
    /\ IF ok
       THEN /\ pc' = "branch"
            /\ UNCHANGED <<result, ledger>>
       ELSE /\ pc' = "done"
            /\ result' = "ErrTopic"
            /\ ledger' = Closed(ledger, "ErrTopic")
    /\ UNCHANGED <<others, run, msg, retry, output>>

\* session.ChannelEdit(channel.ID, {Topic: sizeStr}); its error is ignored
SetTopic(ok) ==
    /\ pc = "edit"
    /\ ghost' = [ghost EXCEPT !.calls = @ + 1,
                              !.sideFailed = IF ok THEN @ ELSE @ \cup {"topic"}]
    /\ channels' = IF ok
                   THEN [channels EXCEPT ![run.remote].topic = FormatInt(run.size)]
                   ELSE channels
    /\ pc' = "branch"
    /\ UNCHANGED <<others, result, run, msg, retry, output, ledger>>

\* the choice of the upload path, and the head of uploadChunkedFile
Branch ==
    /\ pc = "branch"
    /\ IF FitsSingle(run.size, run.maxDiscordFileSize)
       THEN /\ run' = [run EXCEPT !.path = "single"]
            /\ pc' = "single_read"
            /\ UNCHANGED <<result, ledger, output>>
       ELSE LET chunkSize == ChunkSizeOf(run.maxDiscordFileSize)
            IN  /\ run' = [run EXCEPT !.path = "chunked", !.chunkSize = chunkSize,
                                      !.first = ~run.resume,
                                      !.blockNumber = run.startBlock]
                /\ IF chunkSize <= 0
                   THEN /\ pc' = "done"
                        /\ result' = "ErrChunkTooSmall"
                        /\ ledger' = Closed(ledger, "ErrChunkTooSmall")
                        /\ UNCHANGED output
                   ELSE /\ pc' = "chunk_read"
                        /\ output' = ChunkedBarStart(output, run.debug,
                                                     run.startBlock, chunkSize)
                        /\ UNCHANGED <<result, ledger>>
    /\ UNCHANGED <<channels, others, msg, retry, ghost>>

(***************************************************************************)
(* uploadSingleFile and uploadChunkedFile up to the send                   *)
(***************************************************************************)
\* io.ReadAll and createUploadMessage("1", bytes.NewReader(data))
SingleRead(ok) ==
    /\ pc = "single_read"
    /\ IF ok
       THEN /\ msg' = [name |-> <<"1">>, data |-> ReadAll(run.size, run.offset), pos |-> 0]
            /\ run' = [run EXCEPT !.offset = run.size, !.n = run.size - run.offset]
            /\ retry' = [NoRetry EXCEPT !.maxTries = UploadTries]
            /\ pc' = "send"
            /\ UNCHANGED <<result, ledger>>
       ELSE /\ pc' = "done"
            /\ result' = "ErrRead"
            /\ ledger' = Closed(ledger, "ErrRead")
            /\ UNCHANGED <<msg, run, retry>>
    /\ UNCHANGED <<channels, others, output, ghost>>

\* one pass of the chunk loop up to the send: blockNumber++, io.ReadFull into
\* a new buffer, the n == 0 exit, verifyChunkSize, createUploadMessage
ChunkRead(ok) ==
    /\ pc = "chunk_read"
    /\ LET blockNumber == NextBlockNumber(run.blockNumber)
           r == ReadFull(run.size, run.offset, run.chunkSize)
           v == verifyChunkSize(run.chunkSize, r.n)
           end(res) == /\ pc' = "done"
                       /\ result' = res
                       /\ ledger' = Closed(ledger, res)
                       /\ UNCHANGED <<msg, retry, output, ghost>>
       IN  IF ~ok
           THEN /\ run' = [run EXCEPT !.blockNumber = blockNumber]
                /\ end("ErrRead")
           ELSE /\ run' = [run EXCEPT !.blockNumber = blockNumber,
                                      !.offset = @ + r.n, !.n = r.n]
                /\ IF r.n = 0 THEN end("nil")
                   ELSE IF v # "nil" THEN end(v)
                   ELSE /\ output' = ChunkProgress(output, run.debug, blockNumber, r.n,
                                                   run.offset + r.n, run.size)
                        /\ msg' = [name |-> Itoa(blockNumber), data |-> r.data, pos |-> 0]
                        /\ retry' = [NoRetry EXCEPT !.maxTries = UploadTries]
                        /\ ghost' = [ghost EXCEPT !.firstChunk =
                                        IF @.set THEN @
                                        ELSE [set |-> TRUE, name |-> Itoa(blockNumber),
                                              offset |-> run.offset, n |-> r.n]]
                        /\ pc' = "send"
                        /\ UNCHANGED <<result, ledger>>
    /\ UNCHANGED <<channels, others>>

(***************************************************************************)
(* sendMessageWithRetry                                                    *)
(***************************************************************************)
\* the bytes an attempt reads from the message's Reader: what is left of it
Remaining(m) == SubSeq(m.data, m.pos + 1, Len(m.data))

\* an attempt of ChannelMessageSendComplex succeeds: the message is posted
\* and returned
SendOk ==
    /\ pc = "send"
    /\ retry.i < retry.maxTries
    /\ LET id == NextId(channels[run.remote].msgs)
       IN  /\ channels' = [channels EXCEPT ![run.remote].msgs =
                              Append(@, Posted(id, msg.name, Remaining(msg)))]
           /\ retry' = [retry EXCEPT !.attempts = @ + 1, !.message = id]
    /\ msg' = [msg EXCEPT !.pos = Len(msg.data)]
    /\ ghost' = [ghost EXCEPT !.calls = @ + 1, !.sent = @ + 1]
    /\ ledger' = [ledger EXCEPT ![run.remote].acked = @ + 1,
                                ![run.remote].retried = IF retry.i > 0 THEN @ + 1 ELSE @]
    /\ pc' = "sent"
    /\ UNCHANGED <<others, result, run, output>>

\* an attempt fails, before (drained = FALSE) or after (drained = TRUE) the
\* request body was read from the Reader; sleep unless it was the last attempt
SendFail(drained) ==
    /\ pc = "send"
    /\ retry.i < retry.maxTries
    /\ retry.i > 0 \/ (ghost.failing < MaxFailingSends /\ ghost.sent < MaxFailingPos)
    /\ msg' = [msg EXCEPT !.pos = IF drained THEN Len(msg.data) ELSE @]
    /\ ghost' = [ghost EXCEPT !.calls = @ + 1,
                              !.failing = IF retry.i = 0 THEN @ + 1 ELSE @]
    /\ retry' = [retry EXCEPT !.attempts = @ + 1,
                              !.i = @ + 1,
                              !.waited = IF retry.i < retry.maxTries - 1
                                         THEN @ + WaitTime(retry.i) ELSE @]
    /\ IF retry.i + 1 < retry.maxTries
       THEN UNCHANGED <<pc, result, ledger>>
       ELSE /\ pc' = "done"
            /\ result' = "ErrSend"
            /\ ledger' = Closed(ledger, "ErrSend")
    /\ UNCHANGED <<channels, others, run, output>>

(***************************************************************************)
(* after the send: pin, progress, end of the loop                          *)
(***************************************************************************)
\* PinsNow without the first-block test
PinsEveryBlock == TRUE

\* TRUE when the path pins the message just sent
PinsNow == IF run.path = "single" THEN ~run.resume ELSE run.first

\* the ledger once the pin call for the message just sent was issued
PinIssued(l) ==
    [l EXCEPT ![run.remote].pin =
        [calls    |-> @.calls + 1,
         message  |-> IF @.calls = 0 THEN retry.message ELSE @.message,
         at       |-> IF @.calls = 0 THEN l[run.remote].acked ELSE @.at,
         resumed  |-> @.resumed \/ run.resume,
         missed   |-> @.missed]]

\* the rest of uploadSingleFile, or of the pass of the chunk loop; the error
\* of ChannelMessagePin is ignored
AfterSend(pinOk) ==
    /\ pc = "sent"
    /\ PinsNow \/ pinOk
    /\ channels' = IF PinsNow /\ pinOk
                   THEN [channels EXCEPT ![run.remote].msgs = Pinned(@, retry.message)]
                   ELSE channels
    /\ ghost' = [ghost EXCEPT !.calls = IF PinsNow THEN @ + 1 ELSE @,
                              !.sideFailed = IF PinsNow /\ ~pinOk
                                             THEN @ \cup {"pin"} ELSE @]
    /\ run' = [run EXCEPT !.first = FALSE]
    /\ msg' = NoMsg
    /\ retry' = NoRetry
    /\ output' = IF run.path = "single"
                 THEN SingleProgress(output, run.debug, run.size) ELSE output
    /\ LET l == IF PinsNow THEN PinIssued(ledger) ELSE ledger
       IN  IF run.path = "single" \/ run.n < run.chunkSize
           THEN /\ pc' = "done"
                /\ result' = "nil"
                /\ ledger' = Closed(l, "nil")
           ELSE /\ pc' = "chunk_read"
                /\ ledger' = l
                /\ UNCHANGED result
    /\ UNCHANGED others

\* the process is stopped while up runs; the message it was sending and the
\* locals of sendMessageWithRetry go with it
Interrupt ==
    /\ pc \notin {"idle", "done"}
    /\ pc' = "done"
    /\ result' = "interrupted"
    /\ LET l == IF pc = "sent" /\ PinsNow
                THEN [ledger EXCEPT ![run.remote].pin.missed = TRUE]
                ELSE ledger
       IN  ledger' = Closed(l, "interrupted")
    /\ msg' = NoMsg
    /\ retry' = NoRetry
    /\ UNCHANGED <<channels, others, run, output, ghost>>

(***************************************************************************)
(* rm                                                                      *)
(***************************************************************************)
Rm(name, ok) ==
    /\ pc \in {"idle", "done"}
    /\ ghost.runs < MaxRuns
    /\ channels[name].exists \/ ok
    /\ run' = [NoRun EXCEPT !.cmd = "rm", !.remote = name]
    /\ msg' = NoMsg
    /\ retry' = NoRetry
    /\ output' = NoOutput
    /\ pc' = "done"
    /\ IF channels[name].exists
       THEN /\ ghost' = [ghost EXCEPT !.runs = @ + 1, !.reads = 0, !.calls = 1, !.sent = 0,
                                      !.live[name] = IF ok THEN @ - 1 ELSE @,
                                      !.before = [f \in Names |-> Digest(channels[f])], !.inspected = NoInspection,
                                      !.firstChunk = NoChunk, !.sideFailed = {}]
            /\ IF ok
               THEN /\ channels' = [channels EXCEPT ![name] = Absent]
                    /\ ledger' = [ledger EXCEPT ![name] = NoLedger]
                    /\ result' = "nil"
               ELSE /\ result' = "ErrDelete"
                    /\ UNCHANGED <<channels, ledger>>
       ELSE /\ ghost' = [ghost EXCEPT !.runs = @ + 1, !.reads = 0, !.calls = 0, !.sent = 0,
                                      !.before = [f \in Names |-> Digest(channels[f])], !.inspected = NoInspection,
                                      !.firstChunk = NoChunk, !.sideFailed = {}]
            /\ result' = "ErrNotFound"
            /\ UNCHANGED <<channels, ledger>>
    /\ UNCHANGED others

\* the command line starts up or rm on some local file and remote name
UpCommand ==
    \E name \in Names, resume \in BOOLEAN, limit \in Limits :
        \E size \in LocalSizes(name, resume, limit) :
            UpStart(name, resume, size, limit, FALSE)

\* up --debug
UpDebugCommand ==
    \E name \in Names, resume \in BOOLEAN, limit \in Limits :
        \E size \in LocalSizes(name, resume, limit) :
            UpStart(name, resume, size, limit, TRUE)

RmCommand == \E name \in Names, ok \in BOOLEAN : Rm(name, ok)

Next ==
    \/ UpCommand
    \/ \E listErr \in 0..2 : Inspect(listErr)
    \/ \E ok \in BOOLEAN : CreateChannel(ok)
    \/ \E ok \in BOOLEAN : SetTopic(ok)
    \/ Branch
    \/ \E ok \in BOOLEAN : SingleRead(ok)
    \/ \E ok \in BOOLEAN : ChunkRead(ok)
    \/ SendOk
    \/ \E drained \in BOOLEAN : SendFail(drained)
    \/ \E pinOk \in BOOLEAN : AfterSend(pinOk)
    \/ Interrupt
    \/ RmCommand

Spec == Init /\ [][Next]_vars

(***************************************************************************)
(* The remote side changed by hand, between two commands                   *)
(***************************************************************************)
\* the positions, in the message list, of the messages that carry a block
BlockPositions(msgs) == {k \in 1..Len(msgs) : Len(msgs[k].attachments) > 0}

\* the position in the message list of the j-th block
BlockPosition(msgs, j) ==
    CHOOSE k \in BlockPositions(msgs) :
        Cardinality({i \in BlockPositions(msgs) : i <= k}) = j

\* a sequence without its k-th element
Without(seq, k) == SubSeq(seq, 1, k - 1) \o SubSeq(seq, k + 1, Len(seq))

\* the blocks a hand may touch: the first, the second and the newest one
TamperTargets(msgs) == {1, 2, Len(Blocks(msgs))} \cap (1..Len(Blocks(msgs)))

\* names a hand may give an attachment: not a number, and a number
RenameTargets == {<<"x">>, <<"7">>}

\* somebody deletes the message of block j of the container
DeleteBlock(f, j) ==
    /\ pc \in {"idle", "done"}
    /\ channels[f].exists
    /\ Len(ledger[f].tampers) < MaxTampers
    /\ j \in TamperTargets(channels[f].msgs)
    /\ channels' = [channels EXCEPT ![f].msgs =
                        Without(@, BlockPosition(channels[f].msgs, j))]
    /\ ledger' = [ledger EXCEPT ![f].tampers = Append(@, "delete")]
    /\ UNCHANGED <<others, pc, result, run, msg, retry, output, ghost>>

\* somebody replaces the attachment of block j by one of another name
RenameBlock(f, j, name) ==
    /\ pc \in {"idle", "done"}
    /\ channels[f].exists
    /\ Len(ledger[f].tampers) < MaxTampers
    /\ j \in TamperTargets(channels[f].msgs)
    /\ LET k == BlockPosition(channels[f].msgs, j)
       IN  /\ channels[f].msgs[k].attachments[1].filename # name
           /\ channels' = [channels EXCEPT
                              ![f].msgs[k].attachments[1].filename = name]
    /\ ledger' = [ledger EXCEPT ![f].tampers = Append(@, "rename")]
    /\ UNCHANGED <<others, pc, result, run, msg, retry, output, ghost>>

Tamper ==
    \E f \in Names : \E j \in TamperTargets(channels[f].msgs) :
        \/ DeleteBlock(f, j)
        \/ \E name \in RenameTargets : RenameBlock(f, j, name)

NextTamper == Tamper \/ Next

SpecTamper == Init /\ [][NextTamper]_vars

\* the same commands, and up --debug
NextDebug == UpDebugCommand \/ Next

SpecDebug == Init /\ [][NextDebug]_vars

(***************************************************************************)
(* Properties                                                              *)
(***************************************************************************)
CeilDiv(a, b) == (a + b - 1) \div b

\* 1 + 2 + ... + k
SumTo(k) == (k * (k + 1)) \div 2

\* the blocks of the container the running command works on
RunBlocks == Blocks(channels[run.remote].msgs)

UpDone == pc = "done" /\ run.cmd = "up"

\* C1: a fresh up interrupted after block k of n (1 <= k < n, no send
\* retried), then resumed once with the same local file, leaves a container
\* whose payloads concatenate to what an uninterrupted up leaves: the bytes
\* of the file.
C1_ResumeContinuation ==
    LET l == ledger[run.remote]
        n == CeilDiv(run.size, l.limit - SafetyMargin)
    IN  (/\ UpDone /\ run.resume /\ result = "nil"
         /\ l.freshEnd = "interrupted" /\ l.resumes = 1 /\ l.retried = 0
         /\ l.size = run.size /\ n >= 2
         /\ l.freshAcked >= 1 /\ l.freshAcked < n)
        => Concat(RunBlocks) = LocalBytes(run.size)

\* C2: a successful fresh chunked upload of S bytes leaves ceil(S/B) blocks
\* named 1..ceil(S/B) in order, all of B bytes but the last, which holds the
\* rest.
C2_BlockContiguity ==
    LET B == run.limit - SafetyMargin
        n == CeilDiv(run.size, B)
    IN  (UpDone /\ ~run.resume /\ run.path = "chunked" /\ result = "nil")
        => /\ Len(RunBlocks) = n
           /\ \A k \in 1..Len(RunBlocks) :
                /\ RunBlocks[k].filename = Itoa(k)
                /\ RunBlocks[k].size = IF k < n THEN B ELSE run.size - (n - 1) * B

\* C3: after a successful fresh up the payloads of the container, in order,
\* are the bytes of the file.
C3_RoundTrip ==
    (UpDone /\ ~run.resume /\ result = "nil")
        => Concat(RunBlocks) = LocalBytes(run.size)

\* C4: in every container (none of whose sends was retried) every block but
\* the last has the payload size of block 1.
C4_BlockSizeConstant ==
    \A f \in Names :
        LET b == Blocks(channels[f].msgs)
        IN  (channels[f].exists /\ ledger[f].retried = 0)
            => \A k \in 1..(Len(b) - 1) : b[k].size = b[1].size

\* C5: the first block a resumed run writes (on its first attempt) is named
\* k+1 and carries the file's bytes from offset k*B, where (B, k) is what the
\* resume branch inferred.
C5_ResumePoint ==
    LET k == ghost.inspected.blockNumber
        B == ghost.inspected.maxDiscordFileSize
        b == RunBlocks[Len(RunBlocks)]
    IN  (pc = "sent" /\ run.resume /\ ghost.sent = 1 /\ retry.attempts = 1)
        => /\ b.filename = Itoa(k + 1)
           /\ run.offset - run.n = k * B
           /\ b.data = SubSeq(LocalBytes(run.size), k * B + 1, k * B + b.size)

\* the container of the running up --resume was fully uploaded by a fresh up
\* of the same local file, and last block index * size of block 1 = size
FullyUploaded ==
    LET l == ledger[run.remote]
        b == RunBlocks
    IN  /\ run.cmd = "up" /\ run.resume
        /\ l.freshEnd = "complete" /\ l.size = run.size
        /\ Len(b) > 0
        /\ Atoi(b[Len(b)].filename).val * b[1].size = run.size

\* the resume branch's own conditions for reaching the already-complete test
InspectableNow ==
    LET b == RunBlocks
    IN  /\ channels[run.remote].topic = FormatInt(run.size)
        /\ b[1].size <= run.limit
        /\ b[Len(b)].size = b[1].size
        /\ result \notin {"interrupted", "ErrList"}

\* C6 as claimed: up --resume on a fully uploaded container (its topic set,
\* no send retried, the command returning and its listing calls working)
\* fails with the already-complete error and sends nothing.
C6_AlreadyCompleteAlways ==
    (/\ UpDone /\ FullyUploaded /\ result \notin {"interrupted", "ErrList"}
     /\ channels[run.remote].topic = FormatInt(run.size)
     /\ ledger[run.remote].retried = 0)
        => (result = "ErrAlreadyComplete" /\ ghost.sent = 0)

\* C6 amended: up --resume on a fully uploaded container never succeeds and
\* makes no send, pin, create or edit call; it returns the already-complete
\* error when the topic holds the size, block 1 fits the current limit and
\* the newest block has the size of block 1.
C6_ResumeOfCompleteRefused ==
    FullyUploaded
        => /\ ghost.sent = 0 /\ ghost.calls = 0
           /\ result # "nil"
           /\ (UpDone /\ InspectableNow) => result = "ErrAlreadyComplete"

C6_Witness ==
    /\ UpDone /\ FullyUploaded /\ result = "ErrAlreadyComplete"
    /\ Len(RunBlocks) >= 2

\* the errors of up that refuse the command
Refusals ==
    {"ErrChannelLimit", "ErrExists", "ErrNotExist", "ErrSizeMismatch", "ErrCannotInfer",
     "ErrBlockSizeExceedsLimit", "ErrIncompleteLastBlock", "ErrAlreadyComplete"}

\* C7: an up that returns a precondition or inference error has made no
\* create, edit, send or pin call and left every container as it was; the
\* size-mismatch error comes before any ChannelMessages call.
C7_RefusedUpLeavesRemote ==
    (UpDone /\ result \in Refusals)
        => /\ ghost.calls = 0 /\ ghost.sent = 0
           /\ \A f \in Names : Digest(channels[f]) = ghost.before[f]
           /\ result = "ErrSizeMismatch" => ghost.reads = 0

C7_Witness ==
    /\ UpDone /\ result = "ErrSizeMismatch"
    /\ Len(channels[run.remote].msgs) > 0 /\ ghost.reads = 0

\* C8: a send that succeeds after k failures has made k + 1 attempts, with
\* k < maxTries, and returns the message posted; a send that gives up has
\* made maxTries attempts; the time slept is 1 + 2 + ... + k, and
\* 1 + ... + (maxTries - 1) when it gives up.
C8_RetryBound ==
    /\ pc = "sent"
        => /\ retry.i < retry.maxTries
           /\ retry.attempts = retry.i + 1
           /\ retry.waited = SumTo(retry.i)
           /\ retry.message = Len(channels[run.remote].msgs)
    /\ (pc = "done" /\ result = "ErrSend")
        => /\ retry.attempts = retry.maxTries
           /\ retry.waited = SumTo(retry.maxTries - 1)
    /\ pc = "send" => retry.waited = SumTo(retry.i)

C8_Witness == pc = "sent" /\ retry.i = UploadTries - 1 /\ retry.waited = 45

\* C9: a fresh up takes the single-shot path exactly when size <= limit; a
\* file of exactly the limit ends as one block named "1", a file of the
\* limit + 1 goes the chunked path and ends as at least 2 blocks.
C9_PathBoundary ==
    (run.cmd = "up" /\ ~run.resume /\ run.path # "none")
        => /\ run.path = "single" <=> run.size <= run.limit
           /\ (pc = "done" /\ result = "nil" /\ run.size = run.limit)
                => /\ run.path = "single"
                   /\ Len(RunBlocks) = 1
                   /\ RunBlocks[1].filename = <<"1">>
           /\ (pc = "done" /\ result = "nil" /\ run.size = run.limit + 1)
                => /\ run.path = "chunked"
                   /\ Len(RunBlocks) >= 2

C9_Witness ==
    /\ UpDone /\ ~run.resume /\ result = "nil"
    /\ run.size = run.limit + 1 /\ run.path = "chunked"

\* C10: after an upload aborted by a read error, by exhausted send retries
\* or by an interruption after an acknowledged block, up --resume with the
\* same local file (topic set, same attachment limit, no send retried,
\* listing calls working) is accepted with the resume point (size of
\* block 1, number of acknowledged blocks).
C10_AbortLeavesResumePoint ==
    LET i == ghost.inspected
        p == i.prior
    IN  (/\ run.cmd = "up" /\ run.resume /\ i.done /\ i.err # "ErrList"
         /\ p.size = run.size /\ p.limit = run.limit /\ p.retried = 0
         /\ channels[run.remote].topic = FormatInt(run.size)
         /\ p.lastEnd = "failed" \/ (p.lastEnd = "interrupted" /\ p.acked >= 1))
        => /\ i.err = "nil"
           /\ i.blockNumber = p.acked
           /\ Len(RunBlocks) > 0 /\ i.maxDiscordFileSize = RunBlocks[1].size

\* the attachment names of a container's blocks are "1", "2", ..., "k"
NamedInOrder(b) == \A k \in 1..Len(b) : b[k].filename = Itoa(k)

\* C11: in every state the blocks of every container, in message order, are
\* named 1, 2, ..., k; the one message being sent (or just acknowledged and
\* not yet followed by the next read) is the successor of the blocks
\* acknowledged before it, so block n+1 is sent only after block n's ack.
C11_SequentialGapFree ==
    /\ \A f \in Names : NamedInOrder(Blocks(channels[f].msgs))
    /\ pc = "send" => msg.name = Itoa(Len(RunBlocks) + 1)
    /\ pc = "sent" => /\ msg.name = Itoa(Len(RunBlocks))
                      /\ retry.message = Len(channels[run.remote].msgs)
    /\ pc \in {"inspect", "create", "edit", "branch", "single_read", "chunk_read"}
            => msg = NoMsg

C11_Witness ==
    /\ pc = "sent" /\ run.resume /\ retry.i > 0
    /\ Len(RunBlocks) >= 3

\* the messages of a container that are pinned
PinnedMessages(f) == {k \in 1..Len(channels[f].msgs) : channels[f].msgs[k].pinned}

\* block 2 of container f is being sent or was sent
SecondBlockSent(f) ==
    \/ Len(Blocks(channels[f].msgs)) >= 2
    \/ run.cmd = "up" /\ run.remote = f /\ pc \in {"send", "sent"} /\ msg.name = <<"2">>

\* at most one pin call, issued by the fresh up for the message of block 1
\* when block 1 was the only block acknowledged; no other message pinned
PinOnlyAnchor(f) ==
    LET p == ledger[f].pin
    IN  /\ p.calls <= 1
        /\ ~p.resumed
        /\ p.calls = 1 => /\ p.at = 1 /\ p.message = 1
                           /\ channels[f].msgs[1].attachments[1].filename = <<"1">>
        /\ PinnedMessages(f) \subseteq {1}
        /\ PinnedMessages(f) # {} => p.calls = 1

\* C12 as claimed: over the lifetime of a container the pin call is issued
\* exactly once, for block 1's message, before block 2 is sent, never by a
\* resumed run; so whenever block 2 is sent or the upload is complete the
\* pin call has been issued.
C12_PinExactlyOnce ==
    \A f \in Names :
        channels[f].exists
            => /\ PinOnlyAnchor(f)
               /\ (SecondBlockSent(f) \/ ledger[f].lastEnd = "complete")
                    => ledger[f].pin.calls = 1

\* C12 amended: the pin call is issued at most once, by the fresh up, for
\* block 1's message, after block 1's ack and before block 2 is sent; a
\* resumed run never pins and no other message is pinned; the call has been
\* issued whenever block 2 is sent or the upload is complete, unless the
\* fresh up was stopped between the ack of block 1 and its pin call.
C12_PinAtMostOnce ==
    \A f \in Names :
        channels[f].exists
            => /\ PinOnlyAnchor(f)
               /\ ((SecondBlockSent(f) \/ ledger[f].lastEnd = "complete")
                        /\ ~ledger[f].pin.missed)
                    => ledger[f].pin.calls = 1

C12_Witness ==
    /\ UpDone /\ run.resume /\ result = "nil"
    /\ ledger[run.remote].pin.calls = 1 /\ ~ledger[run.remote].pin.missed
    /\ PinnedMessages(run.remote) = {1}
    /\ Len(RunBlocks) >= 2

\* the blocks an upload of size bytes in chunks of B bytes is to leave
ExpectedBlocks(size, B) ==
    [k \in 1..CeilDiv(size, B) |->
        LET data == SubSeq(LocalBytes(size), (k - 1) * B + 1, Min(k * B, size))
        IN  [filename |-> Itoa(k), size |-> Len(data), data |-> data]]

\* C13: a fresh up whose topic-set call or pin call failed, and that was not
\* stopped and met no read error and no failing send, returns nil and leaves
\* the blocks an upload whose side calls succeed leaves; while it runs, a
\* failed side call leaves no error in the result.
C13_SideCallsIgnored ==
    (run.cmd = "up" /\ ~run.resume /\ ghost.sideFailed # {})
        => /\ pc # "done" => result = "running"
           /\ pc = "done" => result \in {"nil", "interrupted", "ErrRead", "ErrSend"}
           /\ (pc = "done" /\ result = "nil" /\ ledger[run.remote].retried = 0)
                => RunBlocks = ExpectedBlocks(run.size,
                                   IF run.path = "single" THEN run.size
                                   ELSE run.limit - SafetyMargin)

C13_Witness ==
    /\ UpDone /\ ~run.resume /\ result = "nil"
    /\ ghost.sideFailed = {"topic", "pin"}
    /\ run.path = "chunked" /\ Len(RunBlocks) >= 2
    /\ ledger[run.remote].retried = 0

\* C14: in debug mode, between two blocks and after the upload returned
\* nil, every block sent has put exactly one record (total size, bytes
\* processed so far) on standard output; the progress bar is not updated,
\* the bytes processed never decrease and are the total size at the end.
C14_DebugProgressStream ==
    (run.cmd = "up" /\ run.debug)
        => /\ output.bar = 0
           /\ (pc = "chunk_read" \/ (pc = "done" /\ result = "nil"))
                => /\ Len(output.stdout) = ghost.sent
                   /\ \A k \in 1..Len(output.stdout) :
                        /\ output.stdout[k].total = run.size
                        /\ k > 1 => output.stdout[k - 1].done <= output.stdout[k].done
                   /\ (pc = "done" /\ result = "nil")
                        => /\ Len(output.stdout) > 0
                           /\ output.stdout[Len(output.stdout)].done = run.size

\* a container left by one fresh chunked up that stopped after some but not
\* all of its blocks, none of them retried
PartiallyUploaded(l) ==
    /\ l.lastEnd \in {"interrupted", "failed"}
    /\ l.resumes = 0 /\ l.retried = 0
    /\ l.size > l.limit
    /\ l.acked >= 1 /\ l.acked < CeilDiv(l.size, l.limit - SafetyMargin)

\* C15: up --resume on a partially uploaded container of this engine of
\* which one block was deleted or renamed writes no block, and when it
\* returns (not stopped from outside) it returns an error.
C15_TamperRefused ==
    LET p == ghost.inspected.prior
    IN  (/\ run.cmd = "up" /\ run.resume /\ ghost.inspected.done
         /\ p.tampers # <<>>
         /\ PartiallyUploaded(p))
        => /\ ghost.sent = 0
           /\ (pc = "done" /\ result # "interrupted") => result # "nil"

\* C16: an up --resume never runs uploadSingleFile: a resume that passed the
\* resume branch is on the chunked path, and no message named "1" is sent by
\* a resumed run.
C16_ResumeNeverSingleShot ==
    (run.cmd = "up" /\ run.resume)
        => /\ run.path # "single"
           /\ pc # "single_read"
           /\ pc \in {"chunk_read", "send", "sent"} => run.path = "chunked"
           /\ pc \in {"send", "sent"} => msg.name # <<"1">>

C16_Witness ==
    /\ run.cmd = "up" /\ run.resume /\ pc = "send"
    /\ run.path = "chunked" /\ msg.name = <<"2">>
    /\ ledger[run.remote].size = run.size

\* C18: containers (created less deleted) per remote filename are one for a
\* name in the file map and none otherwise; the file containers are at most
\* MaxDiscordChannels; a successful rm had its container and deleted it and
\* no other; rm of an absent name returns not-found, makes no call and
\* changes nothing; up --resume creates and deletes no container.
C18_ContainerSet ==
    /\ \A f \in Names : ghost.live[f] = IF channels[f].exists THEN 1 ELSE 0
    /\ FileCount <= MaxDiscordChannels
    /\ (run.cmd = "rm" /\ result = "nil")
        => /\ ghost.before[run.remote].exists /\ ~channels[run.remote].exists
           /\ \A f \in Names \ {run.remote} : Digest(channels[f]) = ghost.before[f]
    /\ (run.cmd = "rm" /\ result = "ErrNotFound")
        => /\ ~ghost.before[run.remote].exists /\ ghost.calls = 0
           /\ \A f \in Names : Digest(channels[f]) = ghost.before[f]
    /\ (run.cmd = "rm" /\ result = "ErrDelete")
        => \A f \in Names : Digest(channels[f]) = ghost.before[f]
    /\ (run.cmd = "up" /\ run.resume)
        => \A f \in Names : channels[f].exists = ghost.before[f].exists

C18_Witness ==
    /\ run.cmd = "rm" /\ result = "nil"
    /\ ghost.before[run.remote].count >= 2
    /\ others = MaxDiscordChannels - 1 /\ FileCount = others

\* C19: every attempt of a send has the whole chunk read for the block to
\* send, and the block acknowledged carries that chunk, however many
\* attempts failed before.
C19_RetryPayloadBinding ==
    /\ pc = "send" => Remaining(msg) = msg.data
    /\ pc = "sent" => /\ RunBlocks[Len(RunBlocks)].data = msg.data
                      /\ RunBlocks[Len(RunBlocks)].size = run.n

\* C20: verifyChunkSize never returns an error; a chunk read for sending has
\* 0 < n <= attachment limit - 50 bytes; a block acknowledged on the chunked
\* path has a payload of n bytes, 0 < n <= attachment limit - 50, and on the
\* single-shot path of at most the attachment limit.
C20_SizeLimits ==
    (run.cmd = "up")
        => /\ result \notin {"ErrChunkEmpty", "ErrChunkTooLarge"}
           /\ (pc \in {"send", "sent"} /\ run.path = "chunked")
                => /\ run.n > 0 /\ run.n <= run.limit - SafetyMargin
                   /\ verifyChunkSize(run.chunkSize, run.n) = "nil"
           /\ pc = "sent"
                => LET b == RunBlocks[Len(RunBlocks)]
                   IN  IF run.path = "chunked"
                       THEN b.size = run.n /\ b.size > 0
                            /\ b.size <= run.limit - SafetyMargin
                       ELSE b.size <= run.limit

\* C17 (bounds): a send makes at most 10 attempts; the chunk loop goes round
\* again only after a full chunk; an up sends at most one block on the
\* single-shot path and at most ceil(S/B) blocks, B the block size of the
\* loop, on the chunked path.
BoundedSends ==
    (run.cmd = "up")
        => /\ retry.attempts <= UploadTries
           /\ pc = "send" => retry.attempts < UploadTries
           /\ (pc = "chunk_read" /\ run.blockNumber > run.startBlock)
                => run.n = run.chunkSize
           /\ run.path = "single" => ghost.sent <= 1
           /\ (run.path = "chunked" /\ run.chunkSize > 0)
                => ghost.sent <= CeilDiv(run.size, run.chunkSize)

\* steps a pass of the chunk loop can take: the read, 10 attempts, the rest
PassWeight == UploadTries + 4

\* passes of the chunk loop still to come: one per chunk left in the file
\* and one for the read of zero bytes
PassesLeft ==
    IF run.path = "chunked" /\ run.chunkSize > 0
    THEN CeilDiv(run.size - run.offset, run.chunkSize) + 1
    ELSE 0

\* a number that bounds the steps the running command can still take
Measure ==
    LET start == (run.size + 2) * PassWeight
    IN  IF pc \in {"inspect", "create"} THEN start + 4
        ELSE IF pc = "edit" THEN start + 3
        ELSE IF pc = "branch" THEN start + 2
        ELSE IF pc = "single_read" THEN start + 1
        ELSE IF pc = "chunk_read" THEN PassesLeft * PassWeight
        ELSE IF pc = "send" THEN PassesLeft * PassWeight + 2 + (UploadTries - retry.i)
        ELSE IF pc = "sent" THEN PassesLeft * PassWeight + 1
        ELSE 0

\* C17: every step of a running up either returns or lowers Measure, which
\* is never negative, so every up returns after finitely many steps whatever
\* sends fail; and the bounds on attempts and block sends hold after it.
C17_Termination ==
    [][/\ (pc \notin {"idle", "done"} /\ pc' # "done")
            => (Measure' < Measure /\ Measure' >= 0)
       /\ BoundedSends']_vars

C17_Witness ==
    /\ UpDone /\ result = "nil" /\ run.path = "chunked"
    /\ run.size = 200 /\ run.n = 0 /\ ghost.sent = 2 /\ ghost.failing > 0

\* the steps of a command that has started; the process is not stopped
Progress ==
    \/ \E listErr \in 0..2 : Inspect(listErr)
    \/ \E ok \in BOOLEAN : CreateChannel(ok)
    \/ \E ok \in BOOLEAN : SetTopic(ok)
    \/ Branch
    \/ \E ok \in BOOLEAN : SingleRead(ok)
    \/ \E ok \in BOOLEAN : ChunkRead(ok)
    \/ SendOk
    \/ \E drained \in BOOLEAN : SendFail(drained)
    \/ \E pinOk \in BOOLEAN : AfterSend(pinOk)

\* every call of a running command returns
SpecFair == Spec /\ WF_vars(Progress)

\* C17 (termination): every up that has started returns
C17_Terminates == (pc \notin {"idle", "done"}) ~> (pc = "done")

====
